---- MODULE Spec2Model ----
(***************************************************************************)
(* The Legal component (src/components/Legal.tsx) and the pages that mount *)
(* it.  One Legal instance per mounted page; each instance owns one        *)
(* useState cell `language` and renders from its `legalTexts` prop.        *)
(* Then the "Build, Push and Deploy" workflow that ships the site.         *)
(***************************************************************************)
EXTENDS Integers, Sequences, FiniteSets

(* ------------------------------ bounds -------------------------------- *)
\* longest legalTexts array handed to a single mounted page
MaxDocs == 2
\* longest legalTexts array when both pages are mounted
MaxDocsPages == 1
\* number of button clicks explored (over all mounted pages)
MaxClicks == 2

(* ------------------------------ data ---------------------------------- *)
\* slugs a contentlayer document may carry (the file name of the .mdx)
Slugs == {"de", "en", "fr"}
\* compiled MDX bodies; "" is the empty body
Codes == {"", "Hello", "Hallo"}
\* LegalNotice / PrivacyPolicy documents, reduced to the fields Legal reads
LegalNotice == [slug : Slugs, body : [code : Codes]]
\* the arrays of documents of length at most n
DocumentSets(n) == UNION {[1..k -> LegalNotice] : k \in 0..n}

\* type LegalLanguages = 'de' | 'en'
LegalLanguages == {"de", "en"}
\* the routes that mount Legal
Pages == {"legal-notice", "privacy-policy"}
\* JavaScript's undefined (what Array.prototype.find returns on no match)
undefined == [undefined |-> TRUE]

VARIABLES
  legalTexts,   \* page -> the legalTexts prop of its Legal instance
  language,     \* page -> the useState cell of its Legal instance
  legalText,    \* page -> the document resolved by the last render
  mdx,          \* page -> what the last render handed to MDXLayoutRenderer
  className,    \* page -> the highlight class of the DE and EN buttons
  clicks,       \* history: page -> the buttons clicked so far, oldest first
  resolved,     \* history: page -> the document resolved by each render so far
  run           \* the run of the "Build, Push and Deploy" workflow, if any

legalVars == <<legalTexts, language, legalText, mdx, className, clicks, resolved>>
vars == <<legalTexts, language, legalText, mdx, className, clicks, resolved, run>>

\* no workflow run: what the pages see of the workflow
NoRun == [event |-> "none"]

(* --------------------------- pure helpers ----------------------------- *)
\* useState<LegalLanguages>('en')
DefaultLanguageDE == "de"
DefaultLanguage == "en"

\* Array.prototype.find with the predicate text.slug === lang: a scan from
\* index i upwards that returns the first element that matches.
RECURSIVE findFrom(_, _, _)
findFrom(texts, lang, i) ==
  IF i > Len(texts) THEN undefined
  ELSE IF texts[i].slug = lang THEN texts[i]
  ELSE findFrom(texts, lang, i + 1)

\* mutants of find: the last match; the first document when nothing matches
RECURSIVE findLastFrom(_, _, _)
findLastFrom(texts, lang, i) ==
  IF i < 1 THEN undefined
  ELSE IF texts[i].slug = lang THEN texts[i]
  ELSE findLastFrom(texts, lang, i - 1)
findLast(texts, lang) == findLastFrom(texts, lang, Len(texts))
findOrFirst(texts, lang) ==
  IF findFrom(texts, lang, 1) # undefined THEN findFrom(texts, lang, 1)
  ELSE IF Len(texts) > 0 THEN texts[1] ELSE undefined

find(texts, lang) == findFrom(texts, lang, 1)

\* Array.prototype.find does not write to the array it scans.
\* (mutant: a scan that shift()s the elements it has looked at)
arrayAfterShiftScan(texts, lang) ==
  IF Len(texts) > 0 /\ texts[1].slug # lang THEN Tail(texts) ELSE texts
arrayAfterFind(texts, lang) == texts

\* conditionalButtonStyles(lang), with `language` the current state
\* (mutants: `!==` for `===`; the assignment `language = lang`, always truthy)
conditionalButtonStylesInverted(current, lang) ==
  IF current # lang THEN "text-primary-500" ELSE ""
conditionalButtonStylesAssign(current, lang) == "text-primary-500"
conditionalButtonStyles(current, lang) ==
  IF current = lang THEN "text-primary-500" ELSE ""

\* code={legalText?.body.code || ''}: `?.` yields undefined (no TypeError)
\* for an undefined legalText, and `||` replaces every falsy value by ''.
\* (mutant: plain member access, which throws on undefined)
mdxCodeNoOptionalChaining(text) ==
  IF text = undefined THEN [threw |-> TRUE, code |-> ""]
  ELSE [threw |-> FALSE, code |-> text.body.code]
mdxCode(text) ==
  IF text = undefined THEN [threw |-> FALSE, code |-> ""]
  ELSE IF text.body.code = "" THEN [threw |-> FALSE, code |-> ""]
  ELSE [threw |-> FALSE, code |-> text.body.code]

(* ------------------------------ render -------------------------------- *)
\* One evaluation of the function body of Legal with props texts and state
\* lang: the resolved document, the classes of the two buttons, the code
\* handed to MDXLayoutRenderer, and the props array as the scan leaves it.
Legal(texts, lang) ==
  [legalText |-> find(texts, lang),
   legalTexts |-> arrayAfterFind(texts, lang),
   className |-> [de |-> conditionalButtonStyles(lang, "de"),
                  en |-> conditionalButtonStyles(lang, "en")],
   mdx |-> mdxCode(find(texts, lang))]

\* a re-render of page p's instance with state lang
Render(p, lang) ==
  LET out == Legal(legalTexts[p], lang) IN
  /\ legalText' = [legalText EXCEPT ![p] = out.legalText]
  /\ legalTexts' = [legalTexts EXCEPT ![p] = out.legalTexts]
  /\ className' = [className EXCEPT ![p] = out.className]
  /\ mdx' = [mdx EXCEPT ![p] = out.mdx]
  /\ resolved' = [resolved EXCEPT ![p] = Append(@, out.legalText)]

\* the state cell setLanguage writes: the one of the instance it belongs to
\* (mutant: one module-level cell shared by every instance)
cellsOfSharedState(p) == DOMAIN language
cellsOf(p) == {p}

\* (mutant: a toggle, setLanguage((prev) => (prev === 'de' ? 'en' : 'de')))
setLanguageToggle(p, lang) ==
  LET next == IF language[p] = "de" THEN "en" ELSE "de" IN
  /\ language' = [language EXCEPT ![p] = next]
  /\ Render(p, next)

\* setLanguage(lang) of page p's instance: store lang; React re-renders the
\* instance unless lang is the value the cell already holds (Object.is).
setLanguage(p, lang) ==
  /\ language' = [q \in DOMAIN language |->
                    IF q \in cellsOf(p) THEN lang ELSE language[q]]
  /\ IF language[p] = lang
       THEN UNCHANGED <<legalTexts, legalText, mdx, className, resolved>>
       ELSE Render(p, lang)

\* the number of clicks made so far, over all mounted pages
TotalClicks ==
  LET RECURSIVE Sum(_)
      Sum(S) == IF S = {} THEN 0
                ELSE LET q == CHOOSE q \in S : TRUE
                     IN Len(clicks[q]) + Sum(S \ {q})
  IN Sum(DOMAIN clicks)

\* the codes the two buttons pass to setLanguage
\* (mutants: one button copied from the other without changing the code)
CodeOfENCopied == "de"
CodeOfDECopied == "en"
\* (mutant: a code outside LegalLanguages, taken from the documents' slugs)
CodeOfDEOther == "fr"
CodeOfDE == "de"
CodeOfEN == "en"

\* <button onClick={() => setLanguage('de')}>DE</button>
ClickDE(p) ==
  /\ TotalClicks < MaxClicks
  /\ ~mdx[p].threw
  /\ setLanguage(p, CodeOfDE)
  /\ clicks' = [clicks EXCEPT ![p] = Append(@, "de")]
  /\ UNCHANGED run

\* <button onClick={() => setLanguage('en')}>EN</button>
ClickEN(p) ==
  /\ TotalClicks < MaxClicks
  /\ ~mdx[p].threw
  /\ setLanguage(p, CodeOfEN)
  /\ clicks' = [clicks EXCEPT ![p] = Append(@, "en")]
  /\ UNCHANGED run

\* selectLanguage(code): the only callers of setLanguage are the two buttons
selectLanguage(p, code) ==
  \/ code = "de" /\ ClickDE(p)
  \/ code = "en" /\ ClickEN(p)

(* --------------------------- specifications --------------------------- *)
\* the state after the first render of the mounted pages, page p with the
\* props texts[p] and the initial state of useState
Mounted(texts) ==
  LET out(p) == Legal(texts[p], DefaultLanguage) IN
  /\ language = [p \in DOMAIN texts |-> DefaultLanguage]
  /\ legalText = [p \in DOMAIN texts |-> out(p).legalText]
  /\ legalTexts = [p \in DOMAIN texts |-> out(p).legalTexts]
  /\ className = [p \in DOMAIN texts |-> out(p).className]
  /\ mdx = [p \in DOMAIN texts |-> out(p).mdx]
  /\ resolved = [p \in DOMAIN texts |-> <<out(p).legalText>>]
  /\ clicks = [p \in DOMAIN texts |-> <<>>]
  /\ run = NoRun

\* app/legal-notice/page.tsx: <Legal legalTexts={allLegalNotices} />
Init == \E texts \in [{"legal-notice"} -> DocumentSets(MaxDocs)] : Mounted(texts)

\* both pages open (two tabs): legal-notice and privacy-policy
InitPages == \E texts \in [Pages -> DocumentSets(MaxDocsPages)] : Mounted(texts)

Next ==
  \/ \E p \in DOMAIN language : ClickDE(p)
  \/ \E p \in DOMAIN language : ClickEN(p)

Spec == Init /\ [][Next]_vars
SpecPages == InitPages /\ [][Next]_vars

(* ------------------- the two legal-notice page variants ---------------- *)
\* Page of app/legal-notice/page.tsx: the legalTexts prop it hands to Legal
LegalNoticePage(allLegalNotices) == allLegalNotices

\* (mutant: the variant hands Legal the two documents it looked up)
LegalNoticePageOnlyLookups(allLegalNotices) ==
  LET legalNoticeDE == find(allLegalNotices, "de")
      legalNoticeEN == find(allLegalNotices, "en")
  IN (IF legalNoticeDE # undefined THEN <<legalNoticeDE>> ELSE <<>>)
       \o (IF legalNoticeEN # undefined THEN <<legalNoticeEN>> ELSE <<>>)

\* Page of the variant that first looks up the 'de' and the 'en' document
\* (the `as LegalNotice` casts check nothing at run time): the lookups are
\* not used, the prop is the whole collection.
LegalNoticePageWithLookups(allLegalNotices) ==
  LET legalNoticeDE == find(allLegalNotices, "de")
      legalNoticeEN == find(allLegalNotices, "en")
  IN allLegalNotices

\* the two variants, mounted side by side on the same collection
VariantPages == {"legal-notice", "legal-notice-lookups"}
InitVariants ==
  \E allLegalNotices \in DocumentSets(MaxDocs) :
    Mounted([p \in VariantPages |->
               IF p = "legal-notice"
               THEN LegalNoticePage(allLegalNotices)
               ELSE LegalNoticePageWithLookups(allLegalNotices)])
SpecVariants == InitVariants /\ [][Next]_vars

(* ------------- the workflow "Build, Push and Deploy" ------------------- *)
\* on: push (main), pull_request (main), workflow_dispatch
WorkflowEvents == {"push", "pull_request", "workflow_dispatch"}
\* jobs:
Jobs == {"build_and_push", "deploy"}
\* the steps of each job, in the order of the file
BuildAndPushSteps ==
  << "Checkout", "Setup QEMU", "Docker Meta Data", "Login to DockerHub",
     "Build and Push" >>
DeploySteps ==
  << "Checkout", "Login to DockerHub",
     "Pull Docker Image and Run Docker Container" >>
Steps(job) == IF job = "build_and_push" THEN BuildAndPushSteps ELSE DeploySteps

\* deploy: needs: build_and_push
\* (mutant: the needs key left out, so both jobs start at once)
DeployNeedsNothing == {}
DeployNeeds == {"build_and_push"}
Needs(job) == IF job = "deploy" THEN DeployNeeds ELSE {}

\* build_and_push, Login to DockerHub: if: github.event_name != 'pull_request'
\* (mutant: the condition left out)
BuildLoginIfAlways(event) == TRUE
BuildLoginIf(event) == event # "pull_request"
\* deploy, Login to DockerHub: if: github.event_name != 'pull_request'
DeployLoginIfAlways(event) == TRUE
DeployLoginIf(event) == event # "pull_request"
\* deploy, Pull Docker Image and Run Docker Container: the step has no if
\* (mutant: the step guarded like the login before it)
DeployStepIfNotPullRequest(event) == event # "pull_request"
DeployStepIf(event) == TRUE
\* Build and Push: push: ${{ github.event_name != 'pull_request' }}
\* (mutant: push: true)
PushInputTrue(event) == TRUE
PushInput(event) == event # "pull_request"

\* the if of a step; a step without one runs when the steps before it
\* succeeded
StepIf(job, step, event) ==
  CASE job = "build_and_push" /\ step = "Login to DockerHub" ->
         BuildLoginIf(event)
    [] job = "deploy" /\ step = "Login to DockerHub" ->
         DeployLoginIf(event)
    [] job = "deploy" /\ step = "Pull Docker Image and Run Docker Container" ->
         DeployStepIf(event)
    [] OTHER -> TRUE

\* a run right after its trigger: every job queued, nothing done yet.
\*   status: job -> queued, in_progress, success, failure, cancelled, skipped
\*   log:    job -> the outcome of each step so far (success, failure, skipped)
\*   logins: the jobs whose docker/login-action has logged in to DockerHub
\*   pushed: build-push-action has pushed the image to DockerHub
\*   deployed: docker pull and docker stack deploy have run
NewRun(event) ==
  [event |-> event,
   status |-> [j \in Jobs |-> "queued"],
   log |-> [j \in Jobs |-> <<>>],
   logins |-> {},
   pushed |-> FALSE,
   deployed |-> FALSE]

Finished(job) == run.status[job] \in {"success", "failure", "cancelled", "skipped"}
\* the step the job runs next
NextStep(job) == Steps(job)[Len(run.log[job]) + 1]
\* the job's status once its step at the end of log has the given outcome
StatusAfter(job, log, outcome) ==
  IF outcome = "failure" THEN "failure"
  ELSE IF Len(log) = Len(Steps(job)) THEN "success"
  ELSE "in_progress"

\* a runner picks the job up: every job it needs has succeeded
StartJob(job) ==
  /\ run.event # "none"
  /\ run.status[job] = "queued"
  /\ \A n \in Needs(job) : run.status[n] = "success"
  /\ run' = [run EXCEPT !.status[job] = "in_progress"]
  /\ UNCHANGED legalVars

\* a job one of whose needed jobs failed or was skipped is skipped
SkipJob(job) ==
  /\ run.event # "none"
  /\ run.status[job] = "queued"
  /\ \E n \in Needs(job) : run.status[n] \in {"failure", "skipped"}
  /\ run' = [run EXCEPT !.status[job] = "skipped"]
  /\ UNCHANGED legalVars

\* the next step's if is false: the step is skipped
StepSkipped(job) ==
  /\ run.event # "none"
  /\ run.status[job] = "in_progress"
  /\ ~StepIf(job, NextStep(job), run.event)
  /\ LET log == Append(run.log[job], "skipped") IN
       run' = [run EXCEPT !.log[job] = log,
                          !.status[job] = StatusAfter(job, log, "skipped")]
  /\ UNCHANGED legalVars

\* the next step runs and succeeds, with its effect on DockerHub or the swarm
StepSucceeds(job) ==
  /\ run.event # "none"
  /\ run.status[job] = "in_progress"
  /\ StepIf(job, NextStep(job), run.event)
  /\ LET step == NextStep(job)
         log == Append(run.log[job], "success")
     IN run' = [run EXCEPT
          !.log[job] = log,
          !.status[job] = StatusAfter(job, log, "success"),
          !.logins = IF step = "Login to DockerHub" THEN @ \cup {job} ELSE @,
          !.pushed = IF step = "Build and Push" THEN PushInput(run.event) ELSE @,
          !.deployed =
             IF step = "Pull Docker Image and Run Docker Container"
             THEN TRUE ELSE @]
  /\ UNCHANGED legalVars

\* the next step runs and fails: the job fails, its later steps do not run
StepFails(job) ==
  /\ run.event # "none"
  /\ run.status[job] = "in_progress"
  /\ StepIf(job, NextStep(job), run.event)
  /\ LET log == Append(run.log[job], "failure") IN
       run' = [run EXCEPT !.log[job] = log,
                          !.status[job] = StatusAfter(job, log, "failure")]
  /\ UNCHANGED legalVars

\* the run is cancelled: every job that has not finished is cancelled
CancelRun ==
  /\ run.event # "none"
  /\ \E j \in Jobs : ~Finished(j)
  /\ run' = [run EXCEPT !.status =
               [j \in Jobs |-> IF Finished(j) THEN run.status[j] ELSE "cancelled"]]
  /\ UNCHANGED legalVars

\* the workflow runs on GitHub: no page is mounted
InitWorkflow ==
  /\ legalTexts = <<>>
  /\ language = <<>>
  /\ legalText = <<>>
  /\ mdx = <<>>
  /\ className = <<>>
  /\ clicks = <<>>
  /\ resolved = <<>>
  /\ \E event \in WorkflowEvents : run = NewRun(event)

NextWorkflow ==
  \/ \E job \in Jobs : StartJob(job)
  \/ \E job \in Jobs : SkipJob(job)
  \/ \E job \in Jobs : StepSkipped(job)
  \/ \E job \in Jobs : StepSucceeds(job)
  \/ \E job \in Jobs : StepFails(job)
  \/ CancelRun

SpecWorkflow == InitWorkflow /\ [][NextWorkflow]_vars

(* ------------------------------ claims -------------------------------- *)
MountedPages == DOMAIN language
Last(seq) == seq[Len(seq)]
\* the documents of texts whose slug is c
WithSlug(texts, c) == {i \in 1..Len(texts) : texts[i].slug = c}
\* i is the earliest index of texts whose slug is c
IsFirstWithSlug(texts, c, i) ==
  i \in WithSlug(texts, c) /\ \A j \in WithSlug(texts, c) : i <= j
\* page p is in the default state: no button has been clicked yet
DefaultState(p) == clicks[p] = <<>>

\* C1: for every DocumentSet that contains a document with slug "en", the
\* document resolved in the default state (before any selectLanguage) is an
\* "en" document of the set (the "en" document, when there is only one).
C1_DefaultResolvesEn ==
  \A p \in MountedPages :
    DefaultState(p) /\ WithSlug(legalTexts[p], "en") # {} =>
      \E i \in WithSlug(legalTexts[p], "en") : legalText[p] = legalTexts[p][i]
C1_Witness ==
  \E p \in MountedPages :
    /\ DefaultState(p)
    /\ Len(legalTexts[p]) = 2
    /\ legalTexts[p][1].slug = "de"
    /\ legalTexts[p][2].slug = "en"
    /\ legalText[p] = legalTexts[p][2]

\* the DocumentSet [{en, "Hello"}, {de, "Hallo"}]
HelloHallo ==
  << [slug |-> "en", body |-> [code |-> "Hello"]],
     [slug |-> "de", body |-> [code |-> "Hallo"]] >>

\* C2 (as stated): with [{en, "Hello"}, {de, "Hallo"}] the default render
\* shows "Hello", the render after selectLanguage("de") shows "Hallo", and
\* selectLanguage("fr") can be made and renders empty content.
C2_Original ==
  \A p \in MountedPages :
    legalTexts[p] = HelloHallo =>
      /\ DefaultState(p) => mdx[p].code = "Hello"
      /\ clicks[p] # <<>> /\ Last(clicks[p]) = "de" => mdx[p].code = "Hallo"
      /\ clicks[p] = <<"de">> /\ TotalClicks < MaxClicks =>
           ENABLED (selectLanguage(p, "fr") /\ mdx'[p].code = "")

\* C2 (amended): with [{en, "Hello"}, {de, "Hallo"}] the default render
\* shows "Hello" and the render after selectLanguage("de") shows "Hallo";
\* selectLanguage("fr") cannot be made (the only controls are DE and EN),
\* so with this DocumentSet no render shows empty content.
C2_HelloHallo ==
  \A p \in MountedPages :
    legalTexts[p] = HelloHallo =>
      /\ DefaultState(p) => mdx[p].code = "Hello"
      /\ clicks[p] # <<>> /\ Last(clicks[p]) = "de" => mdx[p].code = "Hallo"
      /\ ~ENABLED selectLanguage(p, "fr")
      /\ mdx[p].code # ""
C2_Witness ==
  \E p \in MountedPages :
    /\ legalTexts[p] = HelloHallo
    /\ clicks[p] = <<"de">>
    /\ mdx[p].code = "Hallo"

\* C3: after selectLanguage(c) for a language code c that no document of
\* the DocumentSet carries, the resolved document is undefined.
C3_AbsentResolvesUndefined ==
  \A p \in MountedPages :
    clicks[p] # <<>> /\ WithSlug(legalTexts[p], Last(clicks[p])) = {} =>
      legalText[p] = undefined
C3_Witness ==
  \E p \in MountedPages :
    /\ clicks[p] = <<"de">>
    /\ Len(legalTexts[p]) = 2
    /\ WithSlug(legalTexts[p], "de") = {}
    /\ legalText[p] = undefined

\* C4: starting from the default state, selectLanguage("de") followed by
\* selectLanguage("en") restores the resolved document: the third render
\* resolves the document that the first render resolved.
C4_RoundTrip ==
  \A p \in MountedPages :
    clicks[p] = <<"de", "en">> =>
      /\ Len(resolved[p]) = 3
      /\ resolved[p][3] = resolved[p][1]
      /\ legalText[p] = resolved[p][1]
C4_Witness ==
  \E p \in MountedPages :
    /\ clicks[p] = <<"de", "en">>
    /\ resolved[p][1] # undefined
    /\ resolved[p][2] # undefined
    /\ resolved[p][2] # resolved[p][1]
    /\ legalText[p] = resolved[p][1]

\* C5: the body handed to the renderer is a function of (DocumentSet,
\* currentLanguage): two instances with the same DocumentSet and the same
\* currentLanguage show the same body, whatever clicks led each there.
C5_PureRender ==
  \A p, q \in MountedPages :
    legalTexts[p] = legalTexts[q] /\ language[p] = language[q] =>
      mdx[p] = mdx[q]
C5_Witness ==
  \E p, q \in MountedPages :
    /\ p # q
    /\ legalTexts[p] = legalTexts[q]
    /\ language[p] = language[q]
    /\ clicks[p] = <<"de", "en">>
    /\ clicks[q] = <<>>
    /\ mdx[p].code = "Hello"
    /\ mdx[q].code = "Hello"

\* C6: a selectLanguage on one instance leaves currentLanguage, the
\* resolved document and the rendered output of every other instance as
\* they were.
C6_PerInstance ==
  [][\A p \in MountedPages :
       clicks'[p] # clicks[p] =>
         \A q \in MountedPages \ {p} :
           /\ language'[q] = language[q]
           /\ legalText'[q] = legalText[q]
           /\ mdx'[q] = mdx[q]
           /\ className'[q] = className[q]]_vars
C6_Witness ==
  \E p, q \in MountedPages :
    /\ clicks[p] = <<"de">>
    /\ clicks[q] = <<"en">>
    /\ language[p] = "de"
    /\ language[q] = "en"
    /\ legalText[p] # legalText[q]

\* C7: the resolved document is the first entry, in DocumentSet order,
\* whose slug equals currentLanguage; when several documents share the slug
\* the earliest is resolved and rendered, never a later one.
C7_FirstMatch ==
  \A p \in MountedPages :
    \A i \in 1..Len(legalTexts[p]) :
      IsFirstWithSlug(legalTexts[p], language[p], i) =>
        /\ legalText[p] = legalTexts[p][i]
        /\ mdx[p].code = legalTexts[p][i].body.code
C7_Witness ==
  \E p \in MountedPages :
    /\ Len(legalTexts[p]) = 2
    /\ clicks[p] = <<"de">>
    /\ WithSlug(legalTexts[p], language[p]) = {1, 2}
    /\ legalTexts[p][1].body.code = "Hallo"
    /\ legalTexts[p][2].body.code = "Hello"
    /\ mdx[p].code = "Hallo"

\* C8: when no document matches currentLanguage the render does not throw,
\* the renderer receives the empty string, and currentLanguage stays at the
\* selected code (no fallback to a default language).
C8_SilentEmpty ==
  \A p \in MountedPages :
    WithSlug(legalTexts[p], language[p]) = {} =>
      /\ mdx[p] = [threw |-> FALSE, code |-> ""]
      /\ clicks[p] # <<>> => language[p] = Last(clicks[p])
C8_Witness ==
  \E p \in MountedPages :
    /\ clicks[p] = <<"en", "de">>
    /\ legalTexts[p] = << [slug |-> "en", body |-> [code |-> "Hello"]] >>
    /\ language[p] = "de"
    /\ mdx[p] = [threw |-> FALSE, code |-> ""]

\* C9: no step of the selector changes the DocumentSet: same documents,
\* same order, same slug and body as supplied.
C9_DocumentSetFrame ==
  [][legalTexts' = legalTexts]_vars
C9_Witness ==
  \E p \in MountedPages :
    /\ Len(clicks[p]) = 2
    /\ Len(resolved[p]) = 3
    /\ Len(legalTexts[p]) = 2
    /\ legalTexts[p][1].slug = "fr"

\* C10: selectLanguage(code) sets currentLanguage to code whether or not a
\* document of the DocumentSet has that slug.
C10_NoValidation ==
  [][\A p \in MountedPages : \A c \in Slugs :
       selectLanguage(p, c) => language'[p] = c]_vars
C10_Witness ==
  \E p \in MountedPages :
    /\ clicks[p] # <<>>
    /\ Last(clicks[p]) = "en"
    /\ language[p] = "en"
    /\ legalTexts[p] # <<>>
    /\ WithSlug(legalTexts[p], "en") = {}

\* the language controls the last render of page p shows
Controls(p) == DOMAIN className[p]
\* the slugs that occur in the DocumentSet of page p
SlugsOf(p) == {legalTexts[p][i].slug : i \in 1..Len(legalTexts[p])}
\* the controls of page p that carry the active highlight
Highlighted(p) == {c \in Controls(p) : className[p][c] = "text-primary-500"}

\* C11 (as stated): the render shows exactly one language control per
\* distinct slug occurring in the DocumentSet, and marks the control of the
\* active language.
C11_Original ==
  \A p \in MountedPages :
    /\ Controls(p) = SlugsOf(p)
    /\ language[p] \in Highlighted(p)

\* C11 (amended): the render shows exactly two language controls, DE and
\* EN, whatever slugs occur in the DocumentSet, and marks the control of the
\* active language.
C11_TwoControls ==
  \A p \in MountedPages :
    /\ Controls(p) = {"de", "en"}
    /\ language[p] \in Highlighted(p)
C11_Witness ==
  \E p \in MountedPages :
    /\ SlugsOf(p) = {"fr"}
    /\ clicks[p] = <<"de">>
    /\ Controls(p) = {"de", "en"}
    /\ className[p].de = "text-primary-500"

\* C12: every new instance starts with currentLanguage = "en", whatever
\* DocumentSet it receives (also an empty one or one without an "en"
\* document).
C12_StartsAtEn ==
  \A p \in MountedPages : DefaultState(p) => language[p] = "en"
C12_Witness ==
  \E p \in MountedPages :
    /\ DefaultState(p)
    /\ legalTexts[p] = << [slug |-> "de", body |-> [code |-> "Hallo"]] >>
    /\ language[p] = "en"
    /\ legalText[p] = undefined

\* C13: currentLanguage of an instance changes only in a step that is a
\* click on one of that instance's language controls.
C13_OnlyClicksChange ==
  [][\A p \in MountedPages :
       language'[p] # language[p] =>
         \E c \in {"de", "en"} :
           /\ clicks'[p] = Append(clicks[p], c)
           /\ language'[p] = c]_vars
C13_Witness ==
  \E p, q \in MountedPages :
    /\ clicks[p] = <<"de">>
    /\ clicks[q] = <<>>
    /\ language[p] = "de"
    /\ language[q] = "en"

\* C14: there is no terminal state: in every reachable state, also one
\* whose resolved document is undefined, each of the two controls can be
\* clicked and takes currentLanguage to its language (within the number of
\* clicks explored).
C14_NoTerminalState ==
  \A p \in MountedPages :
    TotalClicks < MaxClicks =>
      \A c \in {"de", "en"} :
        ENABLED (selectLanguage(p, c) /\ language'[p] = c)
C14_Witness ==
  \E p \in MountedPages :
    /\ clicks[p] = <<"de">>
    /\ legalText[p] = undefined
    /\ legalTexts[p] # <<>>
    /\ TotalClicks < MaxClicks
    /\ ENABLED (selectLanguage(p, "en") /\ language'[p] = "en")

\* C15: the legal-notice page variant that looks up the 'de' and the 'en'
\* document does not use the lookups and hands Legal the whole collection:
\* mounted on the same collection as the variant without lookups it has the
\* same legalTexts, and after the same selections it renders the same body.
C15_VariantsAgree ==
  \A p, q \in MountedPages :
    /\ legalTexts[p] = legalTexts[q]
    /\ clicks[p] = clicks[q] => language[p] = language[q]
    /\ language[p] = language[q] =>
         /\ legalText[p] = legalText[q]
         /\ mdx[p] = mdx[q]
C15_Witness ==
  /\ MountedPages = VariantPages
  /\ clicks["legal-notice"] = <<"de">>
  /\ clicks["legal-notice-lookups"] = <<"de">>
  /\ legalTexts["legal-notice-lookups"] =
       << [slug |-> "fr", body |-> [code |-> "Hello"]],
          [slug |-> "de", body |-> [code |-> "Hallo"]] >>
  /\ mdx["legal-notice"].code = "Hallo"
  /\ mdx["legal-notice-lookups"].code = "Hallo"

\* the language the history of page p asks for: the code of the most recent
\* click, "en" when there was none
Requested(p) == IF clicks[p] = <<>> THEN "en" ELSE Last(clicks[p])

\* C16: in every reachable state currentLanguage is "de" or "en", whatever
\* slugs the DocumentSet contains.
C16_TwoLanguages ==
  \A p \in MountedPages : language[p] \in {"de", "en"}
C16_Witness ==
  \E p \in MountedPages :
    /\ SlugsOf(p) = {"fr", "en"}
    /\ Len(clicks[p]) = 2
    /\ language[p] = "de"

\* C17: in every reachable state exactly one of the two controls carries
\* "text-primary-500", the one whose code is currentLanguage, also when no
\* document matches currentLanguage.
C17_OneHighlight ==
  \A p \in MountedPages :
    /\ Highlighted(p) = {language[p]}
    /\ Cardinality(Highlighted(p)) = 1
C17_Witness ==
  \E p \in MountedPages :
    /\ clicks[p] = <<"de">>
    /\ legalTexts[p] # <<>>
    /\ WithSlug(legalTexts[p], "de") = {}
    /\ className[p] = [de |-> "text-primary-500", en |-> ""]

\* C18: after any sequence of selectLanguage calls currentLanguage is the
\* code of the most recent call ("en" when there was none), and the
\* resolved document is the one that code alone selects: the earlier
\* selections leave no trace.
C18_LastCallWins ==
  \A p \in MountedPages :
    /\ language[p] = Requested(p)
    /\ IF WithSlug(legalTexts[p], Requested(p)) = {}
       THEN legalText[p] = undefined
       ELSE \E i \in 1..Len(legalTexts[p]) :
              /\ IsFirstWithSlug(legalTexts[p], Requested(p), i)
              /\ legalText[p] = legalTexts[p][i]
C18_Witness ==
  \E p \in MountedPages :
    /\ clicks[p] = <<"en", "de">>
    /\ language[p] = "de"
    /\ legalText[p] # undefined
    /\ resolved[p][1] # undefined
    /\ resolved[p][1] # legalText[p]

\* C19: selectLanguage is idempotent: selecting the language that is
\* already active leaves currentLanguage, the resolved document, the
\* rendered body and the highlighted control as they are, so selecting a
\* code twice in a row gives the state that selecting it once gives.
C19_Idempotent ==
  [][\A p \in MountedPages : \A c \in {"de", "en"} :
       clicks'[p] = Append(clicks[p], c) /\ language[p] = c =>
         /\ language'[p] = language[p]
         /\ legalText'[p] = legalText[p]
         /\ mdx'[p] = mdx[p]
         /\ className'[p] = className[p]]_vars
C19_Witness ==
  \E p \in MountedPages :
    /\ clicks[p] = <<"de", "de">>
    /\ language[p] = "de"
    /\ legalText[p] # undefined
    /\ Highlighted(p) = {"de"}

\* C20: the renderer receives the matched document's body code when that
\* is non-empty and the empty string otherwise: a matched document with an
\* empty body code is rendered exactly as a missing document is.
C20_EmptyBodyAsMissing ==
  \A p \in MountedPages :
    mdx[p] = IF legalText[p] # undefined /\ legalText[p].body.code # ""
             THEN [threw |-> FALSE, code |-> legalText[p].body.code]
             ELSE [threw |-> FALSE, code |-> ""]
C20_Witness ==
  \E p \in MountedPages :
    /\ clicks[p] = <<"de">>
    /\ legalText[p] = [slug |-> "de", body |-> [code |-> ""]]
    /\ mdx[p] = [threw |-> FALSE, code |-> ""]
    /\ resolved[p][1] = undefined

\* the job has run its step number i (the step was not skipped)
Executed(job, i) ==
  /\ Len(run.log[job]) >= i
  /\ run.log[job][i] \in {"success", "failure"}
\* the position of a step in its job
StepNumber(job, step) ==
  CHOOSE i \in 1..Len(Steps(job)) : Steps(job)[i] = step
DeployStepNumber ==
  StepNumber("deploy", "Pull Docker Image and Run Docker Container")
BuildLoginNumber == StepNumber("build_and_push", "Login to DockerHub")
DeployLoginNumber == StepNumber("deploy", "Login to DockerHub")

\* C21: the deploy job never starts before build_and_push has finished
\* successfully; in a run whose build_and_push failed or was cancelled the
\* docker pull / docker stack deploy step is not executed.
C21_DeployNeedsBuild ==
  /\ run.status["deploy"] \in {"in_progress", "success", "failure"}
       \/ run.log["deploy"] # <<>>
     => run.status["build_and_push"] = "success"
  /\ run.status["build_and_push"] \in {"failure", "cancelled"}
     => /\ ~Executed("deploy", DeployStepNumber)
        /\ ~run.deployed
        /\ run.status["deploy"] \in {"queued", "skipped", "cancelled"}
C21_Witness ==
  /\ run.event = "push"
  /\ run.status["build_and_push"] = "failure"
  /\ run.log["build_and_push"] =
       <<"success", "success", "success", "success", "failure">>
  /\ run.status["deploy"] = "skipped"
  /\ run.log["deploy"] = <<>>

\* C22: a run triggered by pull_request never logs in to DockerHub (in
\* either job) and never pushes an image; in a run triggered by a push to
\* main or by workflow_dispatch the login steps are never skipped, a
\* build_and_push that succeeds has logged in and pushed the image, and a
\* deploy that succeeds has logged in.
C22_PushOnlyOutsidePullRequests ==
  /\ run.event = "pull_request" =>
       /\ run.logins = {}
       /\ ~run.pushed
       /\ ~Executed("build_and_push", BuildLoginNumber)
       /\ ~Executed("deploy", DeployLoginNumber)
  /\ run.event \in {"push", "workflow_dispatch"} =>
       /\ \A job \in Jobs : \A i \in 1..Len(run.log[job]) :
            run.log[job][i] # "skipped"
       /\ run.status["build_and_push"] = "success" =>
            "build_and_push" \in run.logins /\ run.pushed
       /\ run.status["deploy"] = "success" => "deploy" \in run.logins
C22_Witness ==
  /\ run.event = "pull_request"
  /\ run.status["build_and_push"] = "success"
  /\ run.log["build_and_push"] =
       <<"success", "success", "success", "skipped", "success">>
  /\ ~run.pushed
  /\ run.status["deploy"] = "queued"

\* C23: the docker pull / docker stack deploy step is not guarded by the
\* event type: for every trigger, once the deploy job has reached it the
\* step runs and is never skipped; so it also runs in pull_request runs, in
\* which no image was pushed and both DockerHub logins were skipped.
C23_DeployUnguarded ==
  /\ run.status["deploy"] = "in_progress"
       /\ Len(run.log["deploy"]) = DeployStepNumber - 1
     => /\ ENABLED StepSucceeds("deploy")
        /\ ~ENABLED StepSkipped("deploy")
  /\ Len(run.log["deploy"]) >= DeployStepNumber
     => Executed("deploy", DeployStepNumber)
  /\ run.event = "pull_request" /\ run.deployed
     => /\ run.status["build_and_push"] = "success"
        /\ ~run.pushed
        /\ run.logins = {}
        /\ run.log["deploy"][DeployLoginNumber] = "skipped"
C23_Witness ==
  /\ run.event = "pull_request"
  /\ run.deployed
  /\ run.status["deploy"] = "success"
  /\ ~run.pushed
  /\ run.logins = {}

====
